---------------------------- MODULE Spec2Model ----------------------------
(***************************************************************************)
(* Model of the request-governance utilities of referral-agent             *)
(* (src/scraper_utils.py): the per-domain CircuitBreaker and the LRUCache. *)
(* Time is the value time.time() returns, an integer clock that the Tick   *)
(* action advances; dictionaries are functions whose DOMAIN is the set of  *)
(* keys present.                                                           *)
(***************************************************************************)
EXTENDS Integers, Sequences, FiniteSets, TLC

VARIABLES
    now,                \* the value of time.time()
    ret,                \* the last call and what it returned
    failure_threshold,  \* CircuitBreaker.failure_threshold
    recovery_timeout,   \* CircuitBreaker.recovery_timeout
    _failures,          \* CircuitBreaker._failures : key -> int
    _last_failure,      \* CircuitBreaker._last_failure : key -> time
    _state,             \* CircuitBreaker._state : key -> closed/open/half-open
    admitted,           \* history: calls admitted per key since it went half-open
    streak,             \* history: record_failure calls per key since the last record_success
    max_size,           \* LRUCache.max_size
    ttl_seconds,        \* LRUCache.ttl_seconds
    _cache,             \* LRUCache._cache, oldest entry first
    recency,            \* history: the cached urls, least recently inserted or read first
    db,                 \* the job_history collection: the ids of its documents
    _seen_cache,        \* JobStorage._seen_cache
    _cache_loaded,      \* JobStorage._cache_loaded
    pc,                 \* "idle", or "batch" inside the loop of save_jobs_batch
    jobs,               \* save_jobs_batch: its argument
    idx,                \* save_jobs_batch: how many jobs the loop has taken
    saved_count,        \* save_jobs_batch: saved_count
    batch,              \* save_jobs_batch: the writes of the open WriteBatch
    commits,            \* history: the size of every batch committed by this call
    recorded,           \* history: urls saved by save_job and not deleted since
    failed,             \* history: a call to the store has failed
    max_retries,        \* retry_with_backoff: max_retries
    base_delay,         \* retry_with_backoff: base_delay
    max_delay,          \* retry_with_backoff: max_delay
    exponential,        \* retry_with_backoff: exponential
    exceptions,         \* retry_with_backoff: exceptions
    retry_pc,           \* "idle", "loop" inside the for loop of wrapper, "done"
    attempt,            \* wrapper: attempt
    last_exception,     \* wrapper: last_exception
    trace,              \* history: the calls of func and the sleeps of wrapper, in order
    min_delay,          \* RateLimiter.min_delay
    limiter_max_delay,  \* RateLimiter.max_delay
    last_request_time,  \* RateLimiter.last_request_time : domain -> time
    _lock_times,        \* RateLimiter._lock_times : domain -> time
    lock_events,        \* history: the latest lock or unlock call per domain
    wait_pc,            \* per thread: where it is in RateLimiter.wait
    wait_local,         \* per thread: the locals of its call of wait
    load_pc,            \* where the thread in _load_seen_cache is
    docs,               \* _load_seen_cache: the ids its scan has read
    set_pc,             \* per thread: where it is in LRUCache.set
    set_local           \* per thread: the arguments of its call of set

breakerVars == <<failure_threshold, recovery_timeout, _failures, _last_failure,
                 _state, admitted, streak>>
cacheVars == <<max_size, ttl_seconds, _cache, recency>>
storageVars == <<db, _seen_cache, _cache_loaded, pc, jobs, idx, saved_count, batch,
                 commits, recorded, failed>>
retryVars == <<max_retries, base_delay, max_delay, exponential, exceptions, retry_pc,
               attempt, last_exception, trace>>
limiterVars == <<min_delay, limiter_max_delay, last_request_time, _lock_times, lock_events>>
raceVars == <<wait_pc, wait_local, load_pc, docs, set_pc, set_local>>
vars == <<now, ret, breakerVars, cacheVars, storageVars, retryVars, limiterVars, raceVars>>

(***************************************************************************)
(* Bounds of the model.                                                    *)
(***************************************************************************)
MaxTime == 4
MaxThreshold == 3
MaxTimeout == 2
MaxSize == 3
MaxCacheTime == 3
MaxTtl == 2
MaxJobs == 2
MaxRetries == 3
MaxWaitTime == 3
MaxRateDelay == 2
MaxAgentTime == 3
MaxDomainTime == 2
MaxFailTime == 1

Domains == {"x.com", "y.com"}
Urls == {"u1", "u2", "u3"}
Values == {"v1", "v2"}

NoCall == [op |-> "none"]

\* the threads of the process that call into the shared objects
Threads == {"t1", "t2"}
NoLocals == [at |-> "none"]

(***************************************************************************)
(* Dictionary helpers: dict.get(key, default) and dict[key] = value.       *)
(***************************************************************************)
Get(dict, key, default) == IF key \in DOMAIN dict THEN dict[key] ELSE default

Put_all(dict, key, value) == [k \in DOMAIN dict \cup {key} |-> value]

Put(dict, key, value) ==
    [k \in (DOMAIN dict) \cup {key} |-> IF k = key THEN value ELSE dict[k]]

EmptyDict == [k \in {} |-> 0]

Min(a, b) == IF a < b THEN a ELSE b

(***************************************************************************)
(* CircuitBreaker                                                          *)
(***************************************************************************)
half_open_requests == 1

\* caps of the counters: one step past the values the code distinguishes
MaxFailures == MaxThreshold + 1
MaxAdmitted == half_open_requests + 1

RecoveryElapsed_reversed(key) == now - Get(_last_failure, key, 0) < recovery_timeout

RecoveryElapsed_inclusive(key) == now - Get(_last_failure, key, 0) >= recovery_timeout

\* time.time() - self._last_failure.get(key, 0) > self.recovery_timeout
RecoveryElapsed(key) == now - Get(_last_failure, key, 0) > recovery_timeout

_get_state_effect_autoclose(key) ==
    LET created == IF key \in DOMAIN _state THEN _state ELSE Put(_state, key, "closed")
    IN  IF created[key] = "open" /\ RecoveryElapsed(key)
        THEN Put(created, key, "closed")
        ELSE created

\* _get_state: the _state dictionary it leaves behind
_get_state_effect(key) ==
    LET created == IF key \in DOMAIN _state THEN _state ELSE Put(_state, key, "closed")
    IN  IF created[key] = "open" /\ RecoveryElapsed(key)
        THEN Put(created, key, "half-open")
        ELSE created

\* _get_state: the value it returns
_get_state(key) == _get_state_effect(key)[key]

Allowed_closed_only(state) == state = "closed"

Allowed_always(state) == TRUE

\* state in ("closed", "half-open")
Allowed(state) == state \in {"closed", "half-open"}

can_execute(key) ==
    /\ _state' = _get_state_effect(key)
    /\ ret' = [op |-> "can_execute", key |-> key, val |-> Allowed(_get_state(key))]
    /\ admitted' = IF _get_state(key) = "half-open"
                   THEN [admitted EXCEPT ![key] = Min(@ + 1, MaxAdmitted)]
                   ELSE admitted
    /\ UNCHANGED <<now, raceVars, retryVars, limiterVars, failure_threshold, recovery_timeout, _failures,
                   _last_failure, streak, cacheVars, storageVars>>

record_success(key) ==
    /\ _failures' = Put(_failures, key, 0)
    /\ _state' = Put(_state, key, "closed")
    /\ ret' = [op |-> "record_success", key |-> key, was |-> Get(_state, key, "absent")]
    /\ admitted' = [admitted EXCEPT ![key] = 0]
    /\ streak' = [streak EXCEPT ![key] = 0]
    /\ UNCHANGED <<now, raceVars, retryVars, limiterVars, failure_threshold, recovery_timeout, _last_failure, cacheVars,
                   storageVars>>

ThresholdReached_exact(count) == count = failure_threshold

ThresholdReached_late(count) == count > failure_threshold

\* self._failures[key] >= self.failure_threshold
ThresholdReached(count) == count >= failure_threshold

record_failure(key) ==
    /\ Get(_failures, key, 0) < MaxFailures
    /\ _failures' = Put(_failures, key, Get(_failures, key, 0) + 1)
    /\ _last_failure' = Put(_last_failure, key, now)
    /\ _state' = IF ThresholdReached(Get(_failures, key, 0) + 1)
                 THEN Put(_state, key, "open")
                 ELSE _state
    /\ ret' = [op |-> "record_failure", key |-> key, was |-> Get(_state, key, "absent")]
    /\ admitted' = [admitted EXCEPT ![key] = 0]
    /\ streak' = [streak EXCEPT ![key] = @ + 1]
    /\ UNCHANGED <<now, raceVars, retryVars, limiterVars, failure_threshold, recovery_timeout, cacheVars, storageVars>>

\* the dictionary get_status returns
status(key) ==
    [state |-> _get_state(key),
     failures |-> Get(_failures, key, 0),
     threshold |-> failure_threshold]

get_status(key) ==
    /\ _state' = _get_state_effect(key)
    /\ ret' = [op |-> "get_status", key |-> key, val |-> status(key)]
    /\ UNCHANGED <<now, raceVars, retryVars, limiterVars, failure_threshold, recovery_timeout, _failures,
                   _last_failure, admitted, streak, cacheVars, storageVars>>

(***************************************************************************)
(* Properties of the circuit breaker.                                      *)
(***************************************************************************)
\* the state of a key as a caller sees it: a key never referenced is closed
St(key) == Get(_state, key, "closed")

\* time elapsed since the last record_failure(key)
Elapsed(key) == now - _last_failure[key]

CanExecuteReturned == ret.op = "can_execute"

\* C1: once the failures recorded for D since its last success have reached
\* failure_threshold, can_execute(D) returns false whenever less than
\* recovery_timeout has elapsed since the last record_failure(D).
C1_RefusesUntilTimeout ==
    CanExecuteReturned =>
        ((/\ streak[ret.key] >= failure_threshold
          /\ Elapsed(ret.key) < recovery_timeout) => ret.val = FALSE)

C1_Witness ==
    /\ CanExecuteReturned
    /\ streak[ret.key] >= failure_threshold
    /\ Elapsed(ret.key) > 0
    /\ Elapsed(ret.key) < recovery_timeout
    /\ ret.val = FALSE

\* C2: while the circuit of D is half-open, can_execute(D) admits at most
\* half_open_requests calls (one probe) before a record_success(D) or
\* record_failure(D) resolves it.
C2_SingleProbe == \A d \in Domains : admitted[d] <= half_open_requests

\* C3 as stated: with failure_threshold = 3, after three consecutive
\* record_failure(D) can_execute(D) is false; once the time elapsed since the
\* last failure is >= recovery_timeout (equality included) it is true; after a
\* record_success(D), get_status(D) is closed with failure count 0.
C3_AsStated ==
    failure_threshold = 3 =>
        /\ (CanExecuteReturned /\ streak[ret.key] = 3) =>
              /\ Elapsed(ret.key) = 0 => ret.val = FALSE
              /\ Elapsed(ret.key) >= recovery_timeout => ret.val = TRUE
        /\ ret.op = "record_success" =>
              /\ status(ret.key).state = "closed"
              /\ status(ret.key).failures = 0

\* C3 amended: with failure_threshold = 3, after three consecutive
\* record_failure(D) can_execute(D) is false while the time elapsed since the
\* last failure is <= recovery_timeout and true once it is > recovery_timeout;
\* after a record_success(D), get_status(D) is closed with failure count 0.
C3_StrictTimeout ==
    failure_threshold = 3 =>
        /\ (CanExecuteReturned /\ streak[ret.key] = 3) =>
              /\ Elapsed(ret.key) <= recovery_timeout => ret.val = FALSE
              /\ Elapsed(ret.key) > recovery_timeout => ret.val = TRUE
        /\ ret.op = "record_success" =>
              /\ status(ret.key).state = "closed"
              /\ status(ret.key).failures = 0

C3_Witness ==
    /\ failure_threshold = 3
    /\ CanExecuteReturned
    /\ streak[ret.key] = 3
    /\ Elapsed(ret.key) > recovery_timeout
    /\ ret.val = TRUE

\* C4: record_success(D) sets failure_count(D) to 0 and the state of D to
\* closed whatever the state before; no other operation lowers
\* failure_count(D) or moves D from open or half-open to closed.
C4_ResetOnlyOnSuccess ==
    [][\A d \in Domains :
        LET success == ret'.op = "record_success" /\ ret'.key = d
        IN  /\ success => (Get(_failures', d, 0) = 0 /\ d \in DOMAIN _state'
                           /\ _state'[d] = "closed")
            /\ Get(_failures', d, 0) < Get(_failures, d, 0) => success
            /\ (St(d) # "closed" /\ Get(_state', d, "closed") = "closed") => success
      ]_vars

C4_Witness ==
    /\ ret.op = "record_success"
    /\ ret.was = "half-open"
    /\ _failures[ret.key] = 0
    /\ _state[ret.key] = "closed"
    /\ ret.key \in DOMAIN _last_failure

\* C5: every record_failure(D) adds one to failure_count(D), which counts the
\* failures since the last record_success(D); a closed circuit opens on the
\* call that brings the count to failure_threshold and on no other step.
C5_OpensAtThreshold ==
    [][\A d \in Domains :
        LET failure == ret'.op = "record_failure" /\ ret'.key = d
                       /\ streak'[d] = streak[d] + 1
            opens == St(d) = "closed" /\ Get(_state', d, "closed") = "open"
        IN  /\ Get(_failures, d, 0) = streak[d]
            /\ failure => Get(_failures', d, 0) = Get(_failures, d, 0) + 1
            /\ (failure /\ St(d) = "closed") =>
                  (opens <=> streak'[d] = failure_threshold)
            /\ opens => failure
            /\ (ret'.op = "record_success" /\ ret'.key = d) =>
                  Get(_failures', d, 0) = 0
      ]_vars

C5_Witness ==
    /\ failure_threshold = 3
    /\ ret.op = "record_failure"
    /\ ret.was = "closed"
    /\ _state[ret.key] = "open"
    /\ streak[ret.key] = 3

\* C6: a record_failure(D) while D is half-open puts D back to open at once,
\* and can_execute(D) is false again until more than recovery_timeout has
\* elapsed since that failure.
C6_ProbeFailureReopens ==
    [][\A d \in Domains :
        /\ (/\ Get(_state, d, "absent") = "half-open"
            /\ ret'.op = "record_failure" /\ ret'.key = d
            /\ streak'[d] = streak[d] + 1) =>
                (_state'[d] = "open" /\ _last_failure'[d] = now')
        /\ (/\ ret'.op = "can_execute" /\ ret'.key = d
            /\ Get(_state, d, "absent") = "open"
            /\ now' - _last_failure'[d] <= recovery_timeout) => ret'.val = FALSE
      ]_vars

C6_Witness ==
    /\ ret.op = "record_failure"
    /\ ret.was = "half-open"
    /\ _state[ret.key] = "open"
    /\ _last_failure[ret.key] = now

\* C7: can_execute(D) returns true exactly when the state of D, after the
\* open -> half-open transition has been applied at the time of the call,
\* is closed or half-open, and false exactly when it is open; a key never
\* referenced is created closed and admitted.
C7_AllowedUnlessOpen ==
    [][\A d \in Domains :
        (ret'.op = "can_execute" /\ ret'.key = d) =>
            /\ d \in DOMAIN _state'
            /\ _state'[d] = IF St(d) = "open" /\ now - _last_failure[d] > recovery_timeout
                            THEN "half-open" ELSE St(d)
            /\ ret'.val = TRUE <=> _state'[d] \in {"closed", "half-open"}
            /\ ret'.val = FALSE <=> _state'[d] = "open"
            /\ d \notin DOMAIN _state => (ret'.val = TRUE /\ _state'[d] = "closed")
      ]_vars

C7_Witness ==
    /\ CanExecuteReturned
    /\ ret.val = TRUE
    /\ _state[ret.key] = "half-open"
    /\ admitted[ret.key] = 1

\* C36: in every reachable state and for every domain the state is closed,
\* open or half-open; a closed circuit has fewer than failure_threshold
\* failures counted, an open or half-open one has at least failure_threshold.
C36_StateMatchesCount ==
    \A d \in Domains :
        /\ St(d) \in {"closed", "open", "half-open"}
        /\ St(d) = "closed" => Get(_failures, d, 0) < failure_threshold
        /\ St(d) \in {"open", "half-open"} => Get(_failures, d, 0) >= failure_threshold

\* one circuit is half-open with exactly failure_threshold failures while
\* the other is closed one failure short of the threshold
C36_Witness ==
    /\ failure_threshold >= 2
    /\ St("x.com") = "half-open"
    /\ _failures["x.com"] = failure_threshold
    /\ St("y.com") = "closed"
    /\ Get(_failures, "y.com", 0) = failure_threshold - 1

\* C37: a record_failure(D) made while the circuit for D is open leaves it
\* open and makes its time the last failure; and a can_execute(D) on an open
\* circuit returns false while less than recovery_timeout has passed since
\* the last failure.
C37_FailureWhileOpenRestarts ==
    [][\A d \in Domains :
        /\ (ret'.op = "record_failure" /\ ret'.key = d /\ ret'.was = "open") =>
              (_state'[d] = "open" /\ _last_failure'[d] = now)
        /\ (/\ ret'.op = "can_execute"
            /\ ret'.key = d
            /\ St(d) = "open"
            /\ now - _last_failure[d] < recovery_timeout) => ret'.val = FALSE
      ]_vars

\* a second failure has just been recorded on an open circuit, later than
\* the failure that opened it, and the circuit is still open
C37_Witness ==
    /\ ret.op = "record_failure"
    /\ ret.was = "open"
    /\ failure_threshold = 1
    /\ recovery_timeout = 2
    /\ streak[ret.key] = 2
    /\ _state[ret.key] = "open"
    /\ _last_failure[ret.key] = now
    /\ now = 3

\* C38: an open circuit for D, with no failure recorded later, does not
\* refuse forever: with time advancing and can_execute(D) being called, a
\* can_execute(D) eventually returns true; and every record_success(D)
\* leaves the circuit closed with no failure counted.
C38_OpenEventuallyAdmits ==
    /\ \A d \in Domains :
          (St(d) = "open") ~> (CanExecuteReturned /\ ret.key = d /\ ret.val = TRUE)
    /\ [][\A d \in Domains :
            (ret'.op = "record_success" /\ ret'.key = d) =>
                (_state'[d] = "closed" /\ _failures'[d] = 0)]_vars

\* the circuit opened by two failures has admitted a call once the recovery
\* timeout has passed
C38_Witness ==
    /\ CanExecuteReturned
    /\ ret.val = TRUE
    /\ failure_threshold = 2
    /\ Get(_failures, ret.key, 0) = 2
    /\ St(ret.key) = "half-open"
    /\ now = Get(_last_failure, ret.key, 0) + recovery_timeout + 1

(***************************************************************************)
(* LRUCache: _cache is the OrderedDict as the sequence of its entries,     *)
(* the oldest (first to be evicted) first.                                 *)
(***************************************************************************)
\* hashlib.md5(url.encode()).hexdigest(): distinct urls give distinct digests
_make_key(url) == <<"md5", url>>

Keys(cache) == {cache[i].key : i \in DOMAIN cache}

\* the place of key in the order, for a key that is present
IndexOf(cache, key) == CHOOSE i \in DOMAIN cache : cache[i].key = key

Expired_reversed(timestamp) == timestamp - now > ttl_seconds

\* time.time() - timestamp > self.ttl_seconds
Expired(timestamp) == now - timestamp > ttl_seconds

\* del self._cache[key]
Delete(cache, key) == SelectSeq(cache, LAMBDA e : e.key # key)

\* self._cache.move_to_end(key)
move_to_end_forgotten(cache, key) == cache

move_to_end(cache, key) == Delete(cache, key) \o <<cache[IndexOf(cache, key)]>>

\* history: a sequence of urls without url
Without(urls, url) == SelectSeq(urls, LAMBDA u : u # url)

get(url) ==
    LET key == _make_key(url)
    IN  /\ IF key \notin Keys(_cache)
           THEN /\ ret' = [op |-> "get", url |-> url, val |-> "None",
                           outcome |-> "miss", mru |-> FALSE]
                /\ UNCHANGED <<_cache, recency>>
           ELSE LET entry == _cache[IndexOf(_cache, key)]
                    mru == IndexOf(_cache, key) = Len(_cache)
                IN  IF Expired(entry.timestamp)
                    THEN /\ _cache' = Delete(_cache, key)
                         /\ ret' = [op |-> "get", url |-> url, val |-> "None",
                                    outcome |-> "expired", mru |-> mru]
                         /\ recency' = Without(recency, url)
                    ELSE /\ _cache' = move_to_end(_cache, key)
                         /\ ret' = [op |-> "get", url |-> url, val |-> entry.value,
                                    outcome |-> "hit", mru |-> mru]
                         /\ recency' = Append(Without(recency, url), url)
        /\ UNCHANGED <<now, raceVars, retryVars, limiterVars, breakerVars, max_size, ttl_seconds, storageVars>>

AtCapacity_strict(cache) == Len(cache) > max_size

\* len(self._cache) >= self.max_size
AtCapacity(cache) == Len(cache) >= max_size

\* while len(self._cache) >= self.max_size: self._cache.popitem(last=False)
\* (the entries left when the loop ends or popitem raises on an empty dict)
RECURSIVE EvictOldest_newest(_)
EvictOldest_newest(cache) ==
    IF AtCapacity(cache) /\ cache # <<>>
    THEN EvictOldest_newest(SubSeq(cache, 1, Len(cache) - 1))
    ELSE cache

RECURSIVE EvictOldest(_)
EvictOldest(cache) ==
    IF AtCapacity(cache) /\ cache # <<>> THEN EvictOldest(Tail(cache)) ELSE cache

\* self._cache[key] = (value, time.time()): an OrderedDict keeps the place of
\* a key that is present and appends a key that is new
Assign(cache, key, entry) ==
    IF key \in Keys(cache)
    THEN [i \in DOMAIN cache |-> IF cache[i].key = key THEN entry ELSE cache[i]]
    ELSE Append(cache, entry)

set(url, value) ==
    LET key == _make_key(url)
        kept == EvictOldest(_cache)
        evicted == Len(_cache) - Len(kept)
    IN  /\ IF AtCapacity(kept)
           THEN \* popitem on the empty dictionary raises KeyError
                /\ _cache' = kept
                /\ ret' = [op |-> "set", url |-> url, value |-> value,
                           raised |-> TRUE, evicted |-> evicted,
                           present |-> key \in Keys(_cache)]
                /\ recency' = SelectSeq(recency, LAMBDA u : _make_key(u) \in Keys(kept))
           ELSE /\ _cache' = Assign(kept, key,
                                    [key |-> key, value |-> value, timestamp |-> now])
                /\ ret' = [op |-> "set", url |-> url, value |-> value,
                           raised |-> FALSE, evicted |-> evicted,
                           present |-> key \in Keys(_cache)]
                \* a key the dictionary still holds keeps its place: it is not inserted
                /\ recency' =
                      LET left == SelectSeq(recency, LAMBDA u : _make_key(u) \in Keys(kept))
                      IN  IF key \in Keys(kept) THEN left ELSE Append(left, url)
        /\ UNCHANGED <<now, raceVars, retryVars, limiterVars, breakerVars, max_size, ttl_seconds, storageVars>>

clear ==
    /\ _cache' = <<>>
    /\ recency' = <<>>
    /\ ret' = [op |-> "clear"]
    /\ UNCHANGED <<now, raceVars, retryVars, limiterVars, breakerVars, max_size, ttl_seconds, storageVars>>

stats ==
    /\ ret' = [op |-> "stats",
               val |-> [size |-> Len(_cache), max_size |-> max_size,
                        ttl_seconds |-> ttl_seconds]]
    /\ UNCHANGED <<now, raceVars, retryVars, limiterVars, breakerVars, cacheVars, storageVars>>

(***************************************************************************)
(* Properties of the cache.                                                *)
(***************************************************************************)
\* C8: after any sequence of get, set and clear the cache holds at most
\* max_size entries.
C8_SizeBounded == Len(_cache) <= max_size

C8_Witness ==
    /\ ret.op = "set"
    /\ ret.raised = FALSE
    /\ ret.evicted = 1
    /\ max_size >= 2
    /\ Len(_cache) = max_size

\* C9: get returns a value only if it was stored at most ttl ago; a get of
\* an entry stored more than ttl ago returns absent and deletes that entry
\* alone, whether or not it was the most recently used one.
C9_NoStaleRead ==
    [][\A u \in Urls :
        (ret'.op = "get" /\ ret'.url = u) =>
            LET key == _make_key(u)
                held == key \in Keys(_cache)
                entry == _cache[IndexOf(_cache, key)]
            IN  /\ (held /\ now - entry.timestamp > ttl_seconds) =>
                      /\ ret'.val = "None"
                      /\ _cache' = Delete(_cache, key)
                      /\ Len(_cache') = Len(_cache) - 1
                /\ ret'.val # "None" =>
                      /\ held
                      /\ now - entry.timestamp <= ttl_seconds
                      /\ ret'.val = entry.value
      ]_vars

C9_Witness ==
    /\ ret.op = "get"
    /\ ret.outcome = "expired"
    /\ ret.mru = TRUE
    /\ ret.val = "None"
    /\ Len(_cache) >= 1
    /\ _make_key(ret.url) \notin Keys(_cache)

\* C10: after set(identity, value) returns, for a new identity and for one
\* already cached, the entry of that identity holds the value and is the
\* most recently used one: the last in the eviction order.
C10_SetIsMostRecent ==
    (ret.op = "set" /\ ret.raised = FALSE) =>
        /\ _cache # <<>>
        /\ _cache[Len(_cache)].key = _make_key(ret.url)
        /\ _cache[Len(_cache)].value = ret.value

\* C11: a set of a new key into a cache that holds max_size entries evicts
\* exactly one entry, the one least recently inserted or returned by a get
\* (so max_size + 1 distinct keys set into an empty cache drop only the
\* first).
C11_EvictsLeastRecent ==
    [][\A u \in Urls :
        (/\ ret'.op = "set" /\ ret'.url = u
         /\ _make_key(u) \notin Keys(_cache)
         /\ Len(_cache) = max_size
         /\ max_size >= 1) =>
            /\ ret'.raised = FALSE
            /\ Len(_cache') = max_size
            /\ Keys(_cache') =
                  (Keys(_cache) \ {_make_key(recency[1])}) \cup {_make_key(u)}
      ]_vars

C11_Witness ==
    /\ ret.op = "set"
    /\ ret.present = FALSE
    /\ ret.evicted = 1
    /\ ret.url = "u3"
    /\ max_size = 2
    /\ recency = <<"u1", "u3">>
    /\ Keys(_cache) = {_make_key("u1"), _make_key("u3")}

\* C12: a get that returns a value leaves its entry the most recently used
\* one, the last to be evicted, and the other entries in their order; a get
\* that misses or expires an entry leaves the other entries and their order
\* as they were.
C12_GetPromotes ==
    [][\A u \in Urls :
        (ret'.op = "get" /\ ret'.url = u) =>
            LET key == _make_key(u)
            IN  /\ Delete(_cache', key) = Delete(_cache, key)
                /\ ret'.val # "None" =>
                      /\ _cache' # <<>>
                      /\ _cache'[Len(_cache')].key = key
                      /\ _cache'[Len(_cache')].value = ret'.val
                /\ ret'.val = "None" => key \notin Keys(_cache')
      ]_vars

C12_Witness ==
    /\ ret.op = "get"
    /\ ret.outcome = "hit"
    /\ ret.mru = FALSE
    /\ Len(_cache) = 3
    /\ _cache[3].key = _make_key(ret.url)

\* C39: a set for a url that is already cached removes no other entry: the
\* cache holds the same keys after the call as before, also when it is full.
C39_SetOfCachedKeepsKeys ==
    [][\A u \in Urls :
        (ret'.op = "set" /\ ret'.url = u /\ _make_key(u) \in Keys(_cache)) =>
            Keys(_cache') = Keys(_cache)
      ]_vars

(***************************************************************************)
(* Strings are sequences of characters, so that lower(), strip(), rstrip() *)
(* and urlparse() act on them as they do in the code.                      *)
(***************************************************************************)
Http == <<"h", "t", "t", "p", ":", "/", "/">>
U_a == Http \o <<"e", "x", ".", "c", "/", "a">>
U_mixed == Http \o <<"E", "x", ".", "c", "/", "a", "/">>
U_frag == Http \o <<"e", "x", ".", "c", "/", "a", "#", "f">>
U_upper == Http \o <<"e", "x", ".", "c", "/", "A">>

JobUrls == {U_a, U_mixed, U_frag, U_upper}

\* str.lower(), on the letters the urls use
LowerChar(c) == CASE c = "A" -> "a" [] c = "E" -> "e" [] OTHER -> c

lower(str) == [i \in DOMAIN str |-> LowerChar(str[i])]

\* str.rstrip(chars)
RECURSIVE rstrip(_, _)
rstrip(str, chars) ==
    IF str # <<>> /\ str[Len(str)] \in chars
    THEN rstrip(SubSeq(str, 1, Len(str) - 1), chars)
    ELSE str

\* str.lstrip(chars)
RECURSIVE lstrip(_, _)
lstrip(str, chars) ==
    IF str # <<>> /\ str[1] \in chars THEN lstrip(Tail(str), chars) ELSE str

\* str.strip(): leading and trailing whitespace
strip(str) == lstrip(rstrip(str, {" "}), {" "})

\* the first place of character c in str, Len(str) + 1 when there is none
RECURSIVE Find(_, _, _)
Find(str, c, from) ==
    IF from > Len(str) THEN Len(str) + 1
    ELSE IF str[from] = c THEN from
    ELSE Find(str, c, from + 1)

\* urllib.parse.urlparse of an absolute http url without params and query
urlparse(url) ==
    LET hash == Find(url, "#", 1)
        body == SubSeq(url, 1, hash - 1)
        colon == Find(body, ":", 1)
        slash == Find(body, "/", colon + 3)
    IN  [scheme |-> SubSeq(body, 1, colon - 1),
         netloc |-> SubSeq(body, colon + 3, slash - 1),
         path |-> SubSeq(body, slash, Len(body)),
         fragment |-> SubSeq(url, hash + 1, Len(url))]

\* urllib.parse.urlunparse of (scheme, netloc, path, '', '', fragment)
urlunparse(parts) ==
    parts.scheme \o <<":", "/", "/">> \o parts.netloc \o parts.path
        \o (IF parts.fragment = <<>> THEN <<>> ELSE <<"#">> \o parts.fragment)

\* normalize_url(url) for an absolute url (base_url is not consulted)
normalize_url(url) ==
    LET parsed == urlparse(url)
        path == IF parsed.path # <<"/">> THEN rstrip(parsed.path, {"/"}) ELSE parsed.path
    IN  urlunparse([scheme |-> parsed.scheme, netloc |-> lower(parsed.netloc),
                    path |-> path, fragment |-> <<>>])

(***************************************************************************)
(* JobStorage (src/storage.py).  db is the durable collection, a set of    *)
(* document ids; a call to it either succeeds or raises.                   *)
(***************************************************************************)
BatchLimit == 450

\* hashlib.sha256(url.lower().strip().rstrip('/')).hexdigest()[:32]: distinct
\* strings give distinct digests
_get_url_hash(url) == <<"sha256", rstrip(strip(lower(url)), {"/"})>>

Hashes == {_get_url_hash(u) : u \in JobUrls}

\* a job dictionary with a 'url' field, and one without
JobWith(url) == [url |-> url]
JobWithout == [title |-> "t"]
Jobs == {JobWith(u) : u \in JobUrls} \cup {JobWithout}

\* 'url' in job_data
HasUrl(job) == "url" \in DOMAIN job

\* _load_seen_cache: the _seen_cache and _cache_loaded it leaves, when the
\* scan of the collection succeeds (ok) or raises
LoadedSeen(ok) == IF _cache_loaded THEN _seen_cache ELSE IF ok THEN db ELSE {}
LoadedFlag(ok) == _cache_loaded \/ ok

is_job_seen(job_url) ==
    \E ok \in BOOLEAN :
        /\ pc = "idle"
        /\ _cache_loaded => ok
        /\ _seen_cache' = LoadedSeen(ok)
        /\ _cache_loaded' = LoadedFlag(ok)
        /\ failed' = (failed \/ ~ok)
        /\ ret' = [op |-> "is_job_seen", url |-> job_url,
                   val |-> _get_url_hash(job_url) \in LoadedSeen(ok),
                   raised |-> "none",
                   load |-> IF _cache_loaded THEN "cached"
                            ELSE IF ok THEN "loaded" ELSE "failed"]
        /\ UNCHANGED <<now, raceVars, retryVars, limiterVars, breakerVars, cacheVars, db, pc, jobs, idx, saved_count,
                       batch, commits, recorded>>

MissingUrlOutcome_silent == "none"

\* raise StorageError("Job data must contain a 'url' field")
MissingUrlOutcome == "StorageError"

save_job(job_data) ==
    /\ pc = "idle"
    /\ IF ~HasUrl(job_data)
       THEN /\ ret' = [op |-> "save_job", job |-> job_data, raised |-> MissingUrlOutcome]
            /\ UNCHANGED <<db, _seen_cache, recorded, failed>>
       ELSE LET job_hash == _get_url_hash(job_data.url)
            IN  \E ok \in BOOLEAN :
                   IF ok
                   THEN /\ db' = db \cup {job_hash}
                        /\ _seen_cache' = _seen_cache \cup {job_hash}
                        /\ recorded' = recorded \cup {job_data.url}
                        /\ ret' = [op |-> "save_job", job |-> job_data,
                                   raised |-> "none", val |-> job_hash]
                        /\ UNCHANGED failed
                   ELSE /\ failed' = TRUE
                        /\ ret' = [op |-> "save_job", job |-> job_data,
                                   raised |-> "StorageError"]
                        /\ UNCHANGED <<db, _seen_cache, recorded>>
    /\ UNCHANGED <<now, raceVars, retryVars, limiterVars, breakerVars, cacheVars, _cache_loaded, pc, jobs, idx,
                   saved_count, batch, commits>>

Discard_forgotten(seen, job_id) == seen

\* self._seen_cache.discard(job_id)
Discard(seen, job_id) == seen \ {job_id}

delete_job(job_id) ==
    /\ pc = "idle"
    /\ \E outcome \in {"ok", "get raises", "delete raises"} :
          IF outcome = "get raises" \/ (outcome = "delete raises" /\ job_id \in db)
          THEN /\ failed' = TRUE
               /\ ret' = [op |-> "delete_job", id |-> job_id, val |-> FALSE,
                          was |-> job_id \in db]
               /\ UNCHANGED <<db, _seen_cache, recorded>>
          ELSE IF job_id \notin db
          THEN /\ ret' = [op |-> "delete_job", id |-> job_id, val |-> FALSE,
                          was |-> FALSE]
               /\ UNCHANGED <<db, _seen_cache, recorded, failed>>
          ELSE /\ db' = db \ {job_id}
               /\ _seen_cache' = Discard(_seen_cache, job_id)
               /\ recorded' = {u \in recorded : _get_url_hash(u) # job_id}
               /\ ret' = [op |-> "delete_job", id |-> job_id, val |-> TRUE,
                          was |-> TRUE]
               /\ UNCHANGED failed
    /\ UNCHANGED <<now, raceVars, retryVars, limiterVars, breakerVars, cacheVars, _cache_loaded, pc, jobs, idx,
                   saved_count, batch, commits>>

(***************************************************************************)
(* save_jobs_batch.  Its argument is a list of jobs.n jobs: job i has no   *)
(* 'url' when jobs.skip > 0 divides i, and otherwise the url that follows  *)
(* in UrlList, starting after jobs.first.                                  *)
(***************************************************************************)
UrlList == <<U_a, U_frag, U_mixed, U_upper>>

JobAt(list, i) ==
    IF list.skip > 0 /\ i % list.skip = 0
    THEN JobWithout
    ELSE JobWith(UrlList[((list.first + i - 1) % Len(UrlList)) + 1])

NoJobs == [n |-> 0, skip |-> 0, first |-> 0]
EmptyBatch == [size |-> 0, ids |-> {}]

\* saved_count % 450 == 0
BatchFull(count) == count % BatchLimit = 0

FinalCommitNeeded_always(count) == TRUE

\* saved_count % 450 != 0
FinalCommitNeeded(count) == count % BatchLimit # 0

\* batch.commit() that succeeds: the writes of the batch reach the store
Commit(writes) ==
    /\ db' = db \cup writes.ids
    /\ UNCHANGED recorded

\* batch.commit() that raises: save_jobs_batch does not catch it
CommitRaises ==
    /\ failed' = TRUE
    /\ ret' = [op |-> "save_jobs_batch", jobs |-> jobs, raised |-> "Exception",
               commits |-> commits]
    /\ UNCHANGED <<db, recorded>>

\* the call is over: its local variables are gone
Return ==
    /\ pc' = "idle"
    /\ jobs' = NoJobs
    /\ idx' = 0
    /\ saved_count' = 0
    /\ batch' = EmptyBatch
    /\ commits' = <<>>

\* the call, up to the loop: if not jobs: return 0
BatchStart(counts, skips, firsts) ==
    \E n \in counts, skip \in skips, first \in firsts :
        LET list == [n |-> n, skip |-> skip, first |-> first]
        IN  /\ pc = "idle"
            /\ IF n = 0
               THEN /\ ret' = [op |-> "save_jobs_batch", jobs |-> list,
                               raised |-> "none", val |-> 0, commits |-> <<>>]
                    /\ UNCHANGED <<pc, jobs, idx, saved_count, batch, commits>>
               ELSE /\ ret' = [op |-> "save_jobs_batch", jobs |-> list,
                               raised |-> "running"]
                    /\ pc' = "batch"
                    /\ jobs' = list
                    /\ idx' = 0
                    /\ saved_count' = 0
                    /\ batch' = EmptyBatch
                    /\ commits' = <<>>
            /\ UNCHANGED <<now, raceVars, retryVars, limiterVars, breakerVars, cacheVars, db, _seen_cache, _cache_loaded,
                           recorded, failed>>

\* one turn of: for job_data in jobs
BatchStep ==
    /\ pc = "batch"
    /\ idx < jobs.n
    /\ LET job_data == JobAt(jobs, idx + 1)
       IN  IF ~HasUrl(job_data)
           THEN /\ idx' = idx + 1
                /\ UNCHANGED <<db, _seen_cache, pc, jobs, saved_count, batch, commits,
                               recorded, failed, ret>>
           ELSE LET job_hash == _get_url_hash(job_data.url)
                    filled == [size |-> batch.size + 1, ids |-> batch.ids \cup {job_hash}]
                IN  /\ _seen_cache' = _seen_cache \cup {job_hash}
                    /\ IF BatchFull(saved_count + 1)
                       THEN \E ok \in BOOLEAN :
                               IF ok
                               THEN /\ Commit(filled)
                                    /\ commits' = Append(commits, filled.size)
                                    /\ batch' = EmptyBatch
                                    /\ idx' = idx + 1
                                    /\ saved_count' = saved_count + 1
                                    /\ UNCHANGED <<pc, jobs, failed, ret>>
                               ELSE CommitRaises /\ Return
                       ELSE /\ batch' = filled
                            /\ idx' = idx + 1
                            /\ saved_count' = saved_count + 1
                            /\ UNCHANGED <<db, pc, jobs, commits, recorded, failed, ret>>
    /\ UNCHANGED <<now, raceVars, retryVars, limiterVars, breakerVars, cacheVars, _cache_loaded>>

\* after the loop: the last commit and return saved_count
BatchFinish ==
    /\ pc = "batch"
    /\ idx = jobs.n
    /\ IF FinalCommitNeeded(saved_count)
       THEN \E ok \in BOOLEAN :
               IF ok
               THEN /\ Commit(batch)
                    /\ Return
                    /\ ret' = [op |-> "save_jobs_batch", jobs |-> jobs,
                               raised |-> "none", val |-> saved_count,
                               commits |-> Append(commits, batch.size)]
                    /\ UNCHANGED failed
               ELSE CommitRaises /\ Return
       ELSE /\ Return
            /\ ret' = [op |-> "save_jobs_batch", jobs |-> jobs,
                       raised |-> "none", val |-> saved_count, commits |-> commits]
            /\ UNCHANGED <<db, recorded, failed>>
    /\ UNCHANGED <<now, raceVars, retryVars, limiterVars, breakerVars, cacheVars, _seen_cache, _cache_loaded>>

(***************************************************************************)
(* Properties of the dedup store.                                          *)
(***************************************************************************)
IsSeenReturned == ret.op = "is_job_seen"

\* C13: once save_job(url) has succeeded, is_job_seen(url) returns true
\* until the key is deleted, also when the first load of the key set runs
\* after the save and when that load fails.
C13_RecordedStaysSeen ==
    (IsSeenReturned /\ ret.url \in recorded) => ret.val = TRUE

\* C14: two urls with the same normalize_url form have the same dedup key:
\* after one is saved (and not deleted) is_job_seen of the other is true.
C14_SameNormalFormSeen ==
    (/\ IsSeenReturned
     /\ ret.load # "failed"
     /\ \E r \in recorded : normalize_url(r) = normalize_url(ret.url)) => ret.val = TRUE

\* C15: when a call of save_job or save_jobs_batch is over, whether it
\* returned or raised, the in-process set holds no key that the durable
\* store lacks: a key is added only once its write has succeeded.
C15_SeenOnlyAfterWrite == pc = "idle" => _seen_cache \subseteq db

\* C16: once the key set is loaded and while no call to the store has
\* failed, after every completed save_job, save_jobs_batch and delete_job the
\* in-process set equals the keys of the durable store; delete_job of a key
\* the store lacks returns false and changes neither.
C16_SeenEqualsStore ==
    [][/\ (pc' = "idle" /\ _cache_loaded' /\ ~failed') => _seen_cache' = db'
       /\ \A id \in Hashes :
             (ret'.op = "delete_job" /\ ret'.id = id /\ id \notin db) =>
                 (ret'.val = FALSE /\ db' = db /\ _seen_cache' = _seen_cache)
      ]_vars

C16_Witness ==
    /\ ret.op = "delete_job"
    /\ ret.val = TRUE
    /\ _cache_loaded
    /\ ~failed
    /\ db # {}
    /\ _seen_cache = db

\* C17: when the scan that loads the key set fails, is_job_seen signals the
\* failure instead of answering for a url whose key the store holds.
C17_LoadFailureSignalled ==
    (/\ IsSeenReturned
     /\ ret.load = "failed"
     /\ _get_url_hash(ret.url) \in db) => ret.raised # "none"

\* C18: save_job of job data without a 'url' field raises StorageError and
\* leaves the durable store and the in-process set as they were.
C18_MissingUrlRejected ==
    [][(ret'.op = "save_job" /\ ~HasUrl(ret'.job)) =>
          /\ ret'.raised = "StorageError"
          /\ UNCHANGED <<db, _seen_cache, _cache_loaded>>
      ]_vars

C18_Witness ==
    /\ ret.op = "save_job"
    /\ ~HasUrl(ret.job)
    /\ ret.raised = "StorageError"
    /\ _seen_cache # {}
    /\ db # {}

RECURSIVE SumSeq(_)
SumSeq(seq) == IF seq = <<>> THEN 0 ELSE Head(seq) + SumSeq(Tail(seq))

\* the jobs of a list that have a 'url'
UrlJobs(list) == list.n - (IF list.skip = 0 THEN 0 ELSE list.n \div list.skip)

\* C19: no batch that save_jobs_batch commits holds more than 450 writes or
\* none; when it returns, the committed batches together hold one write for
\* every input job that has a 'url', and that number is returned.
C19_BatchesBounded ==
    /\ batch.size <= BatchLimit
    /\ \A i \in DOMAIN commits : commits[i] \in 1..BatchLimit
    /\ (ret.op = "save_jobs_batch" /\ ret.raised = "none") =>
          /\ \A i \in DOMAIN ret.commits : ret.commits[i] \in 1..BatchLimit
          /\ SumSeq(ret.commits) = UrlJobs(ret.jobs)
          /\ ret.val = UrlJobs(ret.jobs)

C19_Witness ==
    /\ ret.op = "save_jobs_batch"
    /\ ret.raised = "none"
    /\ ret.jobs.skip = BatchLimit
    /\ ret.commits = <<BatchLimit, BatchLimit - 1>>
    /\ ret.val = 2 * BatchLimit - 1

(***************************************************************************)
(* retry_with_backoff.  In the runs of the retrier the clock counts tenths *)
(* of a second, so that the jitter of up to a tenth of the delay is a      *)
(* whole number of ticks.                                                  *)
(***************************************************************************)
Tenths(seconds) == seconds * 10

BaseDelays == {Tenths(1), Tenths(2)}
\* max_delay: float = 30.0
DefaultMaxDelay == Tenths(30)
MaxDelays == {Tenths(1), Tenths(2), DefaultMaxDelay}

\* what func can raise, and the tuples given as exceptions
Raised == {"IOError", "ValueError"}
ExceptionTuples == {{"IOError"}, Raised}

RECURSIVE Pow2(_)
Pow2(n) == IF n = 0 THEN 1 ELSE 2 * Pow2(n - 1)

Delay_swapped(a) ==
    IF exponential
    THEN Min(base_delay * (a + 1), max_delay)
    ELSE Min(base_delay * Pow2(a), max_delay)

\* delay = min(base_delay * (2 ** attempt), max_delay)   when exponential
\* delay = min(base_delay * (attempt + 1), max_delay)    otherwise
Delay(a) ==
    IF exponential
    THEN Min(base_delay * Pow2(a), max_delay)
    ELSE Min(base_delay * (a + 1), max_delay)

\* random.uniform(0, delay * 0.1)
Jitter(delay) == 0..(delay \div 10)

Caught_all(outcome) == TRUE

\* except exceptions as e
Caught(outcome) == outcome \in exceptions

\* for attempt in range(max_retries + 1)
InRange(a) == a < max_retries + 1

ShouldSleep_always(a) == TRUE

\* if attempt < max_retries
ShouldSleep(a) == a < max_retries

CallOf(a, outcome) == [kind |-> "call", attempt |-> a, outcome |-> outcome]
SleepOf(a, delay, jitter) == [kind |-> "sleep", attempt |-> a, delay |-> delay, jitter |-> jitter]

\* last_exception = None
NoException == <<>>

\* the exception object raised by the call of func in iteration a
ExceptionOf(a, outcome) == <<outcome, a>>

\* wrapper(*args, **kwargs), up to the for loop
wrapper ==
    /\ retry_pc = "idle"
    /\ last_exception' = NoException
    /\ attempt' = 0
    /\ trace' = <<>>
    /\ IF InRange(0)
       THEN /\ retry_pc' = "loop"
            /\ ret' = [op |-> "wrapper", raised |-> "running", last_exception |-> NoException]
       ELSE /\ retry_pc' = "done"
            /\ ret' = [op |-> "wrapper", raised |-> "RetryError", last_exception |-> NoException]
    /\ UNCHANGED <<now, max_retries, base_delay, max_delay, exponential, exceptions,
                   raceVars, limiterVars, breakerVars, cacheVars, storageVars>>

\* one iteration of the for loop: the call of func, the handler with its sleep,
\* and the raise that follows the last iteration
Attempt ==
    /\ retry_pc = "loop"
    /\ \E outcome \in {"ok"} \cup Raised :
        IF outcome = "ok"
        THEN \* return func(*args, **kwargs)
             /\ trace' = Append(trace, CallOf(attempt, outcome))
             /\ retry_pc' = "done"
             /\ ret' = [op |-> "wrapper", raised |-> "none", last_exception |-> last_exception]
             /\ UNCHANGED <<now, attempt, last_exception>>
        ELSE IF ~Caught(outcome)
        THEN \* not caught by "except exceptions": it leaves wrapper
             /\ trace' = Append(trace, CallOf(attempt, outcome))
             /\ retry_pc' = "done"
             /\ ret' = [op |-> "wrapper", raised |-> outcome,
                        last_exception |-> last_exception]
             /\ UNCHANGED <<now, attempt, last_exception>>
        ELSE /\ last_exception' = ExceptionOf(attempt, outcome)
             /\ IF ShouldSleep(attempt)
                THEN \E jitter \in Jitter(Delay(attempt)) :
                        \* time.sleep(delay)
                        /\ now' = now + Delay(attempt) + jitter
                        /\ trace' = trace \o <<CallOf(attempt, outcome),
                                               SleepOf(attempt, Delay(attempt), jitter)>>
                ELSE /\ trace' = Append(trace, CallOf(attempt, outcome))
                     /\ UNCHANGED now
             /\ attempt' = attempt + 1
             /\ IF InRange(attempt + 1)
                THEN /\ UNCHANGED <<retry_pc, ret>>
                ELSE \* raise RetryError(..., last_exception=last_exception)
                     /\ retry_pc' = "done"
                     /\ ret' = [op |-> "wrapper", raised |-> "RetryError",
                                last_exception |-> last_exception']
    /\ UNCHANGED <<max_retries, base_delay, max_delay, exponential, exceptions,
                   raceVars, limiterVars, breakerVars, cacheVars, storageVars>>

(***************************************************************************)
(* Properties of the retrier.                                              *)
(***************************************************************************)
Calls == {i \in DOMAIN trace : trace[i].kind = "call"}
Sleeps == {i \in DOMAIN trace : trace[i].kind = "sleep"}

RECURSIVE TotalSleep(_)
TotalSleep(n) ==
    IF n = 0 THEN 0
    ELSE TotalSleep(n - 1)
         + (IF trace[n].kind = "sleep" THEN trace[n].delay + trace[n].jitter ELSE 0)

\* every call of func so far raised an exception of the retryable tuple
FailedEveryCall == \A i \in Calls : Caught(trace[i].outcome)

\* C20: when wrapper is over and every call of func failed with a retryable
\* exception, func was called max_retries + 1 times, every sleep lies between
\* two calls (none follows the last call), and RetryError was raised with
\* the exception of the last call; with max_retries = 2, base_delay = 1 s,
\* exponential backoff and the default max_delay the sleeps sum to at
\* least 3 s.
C20_ExhaustedAfterAllAttempts ==
    (retry_pc = "done" /\ FailedEveryCall) =>
        /\ Cardinality(Calls) = max_retries + 1
        /\ Cardinality(Sleeps) = max_retries
        /\ trace[Len(trace)].kind = "call"
        /\ \A i \in Sleeps : trace[i - 1].kind = "call" /\ trace[i + 1].kind = "call"
        /\ ret.raised = "RetryError"
        /\ ret.last_exception = ExceptionOf(max_retries, trace[Len(trace)].outcome)
        /\ trace[Len(trace)].attempt = max_retries
        /\ (/\ max_retries = 2
            /\ base_delay = Tenths(1)
            /\ exponential
            /\ max_delay = DefaultMaxDelay) => TotalSleep(Len(trace)) >= Tenths(1 + 2)

C20_Witness ==
    /\ retry_pc = "done"
    /\ FailedEveryCall
    /\ ret.raised = "RetryError"
    /\ max_retries = 2
    /\ base_delay = Tenths(1)
    /\ exponential
    /\ max_delay = DefaultMaxDelay
    /\ Cardinality(Calls) = 3
    /\ TotalSleep(Len(trace)) = Tenths(1 + 2) + 1
    /\ now = TotalSleep(Len(trace))

SleptAt(i) == trace[i].delay + trace[i].jitter

\* C21: every sleep follows a failed call of attempt a < max_retries and
\* lasts d + j, with d = min(base_delay * 2^a, max_delay) when exponential,
\* d = min(base_delay * (a + 1), max_delay) otherwise, and 0 <= j <= d / 10;
\* the clock has advanced by the sleeps and by nothing else.
C21_SleepIsDelayPlusJitter ==
    /\ \A i \in Sleeps :
          LET a == trace[i].attempt
              grown == IF exponential THEN base_delay * Pow2(a) ELSE base_delay * (a + 1)
              d == IF grown < max_delay THEN grown ELSE max_delay
          IN /\ a < max_retries
             /\ trace[i - 1].kind = "call"
             /\ trace[i - 1].attempt = a
             /\ trace[i - 1].outcome \in exceptions
             /\ SleptAt(i) >= d
             /\ 10 * (SleptAt(i) - d) <= d
    /\ now = TotalSleep(Len(trace))

C21_Witness ==
    /\ retry_pc = "loop"
    /\ exponential
    /\ max_delay = DefaultMaxDelay
    /\ base_delay = Tenths(1)
    /\ Len(trace) = 6
    /\ trace[6].kind = "sleep"
    /\ trace[6].attempt = 2
    /\ SleptAt(6) = Tenths(4) + 4

\* C22: no sleep between two attempts is longer than max_delay.
C22_SleepWithinMaxDelay == \A i \in Sleeps : SleptAt(i) <= max_delay

\* C23: a call of func that raises an exception outside the exceptions tuple
\* is the last call: wrapper is over, nothing was slept after it, and the
\* caller gets that exception itself, not RetryError.
C23_NotRetried ==
    \A i \in Calls :
        trace[i].outcome \in Raised \ exceptions =>
            /\ i = Len(trace)
            /\ retry_pc = "done"
            /\ ret.raised = trace[i].outcome
            /\ (i = 1 => now = 0)

C23_Witness ==
    /\ retry_pc = "done"
    /\ max_retries = 2
    /\ exceptions = {"IOError"}
    /\ trace = <<CallOf(0, "ValueError")>>
    /\ ret.raised = "ValueError"
    /\ now = 0

(***************************************************************************)
(* RateLimiter                                                             *)
(***************************************************************************)
LockDurations == {1, 2}

\* random.uniform(self.min_delay, self.max_delay)
RequiredDelays == min_delay..limiter_max_delay

MustSleep_never(domain, required_delay) == FALSE

\* if domain in self.last_request_time: ... if elapsed < required_delay
MustSleep(domain, required_delay) ==
    /\ domain \in DOMAIN last_request_time
    /\ now - last_request_time[domain] < required_delay

\* sleep_time = required_delay - elapsed
SleepTime(domain, required_delay) ==
    IF MustSleep(domain, required_delay)
    THEN required_delay - (now - last_request_time[domain])
    ELSE 0

\* return required_delay  (set to sleep_time at line 138 when wait slept)
WaitReturns(domain, required_delay) ==
    IF MustSleep(domain, required_delay)
    THEN SleepTime(domain, required_delay)
    ELSE required_delay

wait(domain) ==
    \E required_delay \in RequiredDelays :
        /\ now + SleepTime(domain, required_delay) <= MaxWaitTime
        \* time.sleep(sleep_time)
        /\ now' = now + SleepTime(domain, required_delay)
        /\ last_request_time' = Put(last_request_time, domain, now')
        /\ ret' = [op |-> "wait", domain |-> domain,
                   val |-> WaitReturns(domain, required_delay),
                   slept |-> SleepTime(domain, required_delay),
                   first |-> domain \notin DOMAIN last_request_time]
        /\ UNCHANGED <<min_delay, limiter_max_delay, _lock_times, lock_events,
                       raceVars, retryVars, breakerVars, cacheVars, storageVars>>

LockActive_inclusive(expiry) == now <= expiry

\* time.time() < self._lock_times[domain]
LockActive(expiry) == now < expiry

is_locked(domain) ==
    /\ ret' = [op |-> "is_locked", domain |-> domain,
               val |-> IF domain \notin DOMAIN _lock_times
                       THEN FALSE
                       ELSE LockActive(_lock_times[domain])]
    /\ UNCHANGED <<now, raceVars, limiterVars, raceVars, retryVars, breakerVars, cacheVars, storageVars>>

lock(domain, duration) ==
    /\ _lock_times' = Put(_lock_times, domain, now + duration)
    /\ lock_events' = [lock_events EXCEPT
                          ![domain] = [kind |-> "lock", at |-> now, duration |-> duration]]
    /\ ret' = [op |-> "lock", domain |-> domain]
    /\ UNCHANGED <<now, min_delay, limiter_max_delay, last_request_time,
                   raceVars, retryVars, breakerVars, cacheVars, storageVars>>

\* self._lock_times.pop(domain, None)
unlock(domain) ==
    /\ _lock_times' = [d \in DOMAIN _lock_times \ {domain} |-> _lock_times[d]]
    /\ lock_events' = [lock_events EXCEPT ![domain] = [kind |-> "unlock"]]
    /\ ret' = [op |-> "unlock", domain |-> domain]
    /\ UNCHANGED <<now, min_delay, limiter_max_delay, last_request_time,
                   raceVars, retryVars, breakerVars, cacheVars, storageVars>>

(***************************************************************************)
(* Properties of the rate limiter.                                         *)
(***************************************************************************)
\* C24: for a domain that has waited before, the completion of wait(D) comes
\* at least min_delay after the completion of the previous wait(D); when
\* the call follows the previous one at once, it comes at most max_delay
\* after it.
C24_GapWithinDelays ==
    [][\A d \in Domains :
        (ret'.op = "wait" /\ ret'.domain = d /\ d \in DOMAIN last_request_time) =>
            LET gap == last_request_time'[d] - last_request_time[d]
            IN  /\ now' = last_request_time'[d]
                /\ gap >= min_delay
                /\ now = last_request_time[d] => gap <= limiter_max_delay
      ]_vars

C24_Witness ==
    /\ ret.op = "wait"
    /\ ~ret.first
    /\ min_delay = 1
    /\ limiter_max_delay = 2
    /\ ret.slept = 2
    /\ last_request_time[ret.domain] = now
    /\ now = 3

\* C25: the value wait returns is the time the caller was suspended in that
\* call, 0 when the call went ahead at once.
C25_ReturnsTimeSlept == ret.op = "wait" => ret.val = ret.slept

\* C26: is_locked(D) is true exactly when the latest of the lock(D, duration)
\* and unlock(D) calls is a lock whose expiry, its time plus its duration,
\* is later than now; the call changes nothing of the limiter and does not
\* remove an expired entry.
C26_IsLockedReadOnly ==
    [][\A d \in Domains :
        (ret'.op = "is_locked" /\ ret'.domain = d) =>
            /\ ret'.val = (/\ lock_events[d].kind = "lock"
                           /\ now < lock_events[d].at + lock_events[d].duration)
            /\ UNCHANGED <<now, last_request_time, _lock_times, min_delay, limiter_max_delay>>
      ]_vars

C26_Witness ==
    /\ ret.op = "is_locked"
    /\ ret.val = FALSE
    /\ ret.domain \in DOMAIN _lock_times
    /\ _lock_times[ret.domain] = now
    /\ ret.domain \in DOMAIN last_request_time

(***************************************************************************)
(* JobScraperAgent.scrape_jobs (src/agent.py), decorated with              *)
(* retry_with_backoff(max_retries=2, base_delay=3.0), over the global       *)
(* rate_limiter, scrape_cache and circuit_breaker.                         *)
(***************************************************************************)
Url_xa == Http \o <<"x", ".", "c", "o", "m", "/", "a">>
Url_xb == Http \o <<"x", ".", "c", "o", "m", "/", "b">>
Url_ya == Http \o <<"y", ".", "c", "o", "m", "/", "a">>

\* target['careers_url']
CareerUrls == {Url_xa, Url_xb, Url_ya}

\* the string with these characters
Named(chars) ==
    CASE chars = <<"x", ".", "c", "o", "m">> -> "x.com"
      [] chars = <<"y", ".", "c", "o", "m">> -> "y.com"

\* return parsed.netloc or url
extract_domain(url) ==
    IF urlparse(url).netloc # <<>> THEN Named(urlparse(url).netloc) ELSE Named(url)

\* domain = extract_domain(careers_url), for the urls of the targets
DomainOf == [url \in CareerUrls |-> extract_domain(url)]

\* the JobSearchResult of a scrape that found jobs
FoundJobs == "v1"

\* what crew.kickoff() and _parse_result come to: jobs found, an empty list of
\* jobs, or an exception
WorkOutcomes == {"jobs", "empty", "raises"}

Truthy_never(value) == FALSE

\* if cached:
Truthy(value) == value # "None"

ShouldCache_always(work) == TRUE

\* if jobs:
ShouldCache(work) == work = "jobs"

\* scrape_cache.get(careers_url): the value it returns
CacheLookup(url) ==
    LET key == _make_key(url)
    IN  IF key \notin Keys(_cache) THEN "None"
        ELSE IF Expired(_cache[IndexOf(_cache, key)].timestamp) THEN "None"
        ELSE _cache[IndexOf(_cache, key)].value

\* scrape_cache.get(careers_url): the entries it leaves
CacheAfterGet(url) ==
    LET key == _make_key(url)
    IN  IF key \notin Keys(_cache) THEN _cache
        ELSE IF Expired(_cache[IndexOf(_cache, key)].timestamp) THEN Delete(_cache, key)
        ELSE move_to_end(_cache, key)

RecencyAfterGet(url) ==
    LET key == _make_key(url)
    IN  IF key \notin Keys(_cache) THEN recency
        ELSE IF Expired(_cache[IndexOf(_cache, key)].timestamp) THEN Without(recency, url)
        ELSE Append(Without(recency, url), url)

\* scrape_cache.set(careers_url, search_result) at time t (max_size >= 1)
CacheAfterSet(cache, url, value, t) ==
    Assign(EvictOldest(cache), _make_key(url),
           [key |-> _make_key(url), value |-> value, timestamp |-> t])

RecencyAfterSet(cache, order, url) ==
    LET left == SelectSeq(order, LAMBDA u : _make_key(u) \in Keys(EvictOldest(cache)))
    IN  IF _make_key(url) \in Keys(EvictOldest(cache)) THEN left ELSE Append(left, url)

\* lines 175-177: the circuit is open, no attempt is made
Blocked(url, use_cache) ==
    /\ ret' = [op |-> "scrape_jobs", url |-> url, use_cache |-> use_cache,
               outcome |-> "blocked", val |-> "error", work |-> "none",
               executed |-> FALSE, waited |-> FALSE]
    /\ UNCHANGED <<now, _failures, _last_failure, streak, cacheVars, last_request_time>>

\* lines 180-184: the result comes from the cache
FromCache(url, use_cache) ==
    /\ _cache' = CacheAfterGet(url)
    /\ recency' = RecencyAfterGet(url)
    /\ ret' = [op |-> "scrape_jobs", url |-> url, use_cache |-> use_cache,
               outcome |-> "cached", val |-> CacheLookup(url), work |-> "none",
               executed |-> FALSE, waited |-> FALSE]
    /\ UNCHANGED <<now, _failures, _last_failure, streak, max_size, ttl_seconds,
                   last_request_time>>

\* lines 189-236: the wait, the unit of work, and what is recorded of it
Scrape(url, use_cache, afterGet, orderAfterGet) ==
    LET domain == DomainOf[url]
    IN  \E required_delay \in RequiredDelays, work \in WorkOutcomes :
            /\ now + SleepTime(domain, required_delay) <= MaxAgentTime
            \* rate_limiter.wait(domain)
            /\ now' = now + SleepTime(domain, required_delay)
            /\ last_request_time' = Put(last_request_time, domain, now')
            /\ IF work = "raises"
               THEN \* except Exception: circuit_breaker.record_failure(domain)
                    /\ Get(_failures, domain, 0) <= failure_threshold
                    /\ _failures' = Put(_failures, domain, Get(_failures, domain, 0) + 1)
                    /\ _last_failure' = Put(_last_failure, domain, now')
                    /\ streak' = [streak EXCEPT ![domain] = @ + 1]
                    /\ _cache' = afterGet
                    /\ recency' = orderAfterGet
                    /\ ret' = [op |-> "scrape_jobs", url |-> url, use_cache |-> use_cache,
                               outcome |-> "failed", val |-> "error", work |-> work,
                               executed |-> TRUE, waited |-> TRUE]
               ELSE \* if jobs: scrape_cache.set(...); circuit_breaker.record_success(domain)
                    /\ _cache' = IF ShouldCache(work)
                                 THEN CacheAfterSet(afterGet, url, FoundJobs, now')
                                 ELSE afterGet
                    /\ recency' = IF ShouldCache(work)
                                  THEN RecencyAfterSet(afterGet, orderAfterGet, url)
                                  ELSE orderAfterGet
                    /\ _failures' = Put(_failures, domain, 0)
                    /\ streak' = [streak EXCEPT ![domain] = 0]
                    /\ ret' = [op |-> "scrape_jobs", url |-> url, use_cache |-> use_cache,
                               outcome |-> "scraped",
                               val |-> IF work = "jobs" THEN FoundJobs ELSE "no jobs",
                               work |-> work, executed |-> TRUE, waited |-> TRUE]
                    /\ UNCHANGED _last_failure
            /\ UNCHANGED <<max_size, ttl_seconds>>

\* the _state dictionary after lines 175-236
StateAfter(url, blocked, cached) ==
    LET domain == DomainOf[url]
        checked == _get_state_effect(domain)
    IN  IF blocked \/ cached THEN checked
        ELSE IF ret'.work = "raises"
        THEN IF ThresholdReached(Get(_failures, domain, 0) + 1)
             THEN Put(checked, domain, "open")
             ELSE checked
        ELSE Put(checked, domain, "closed")

\* the decorated scrape_jobs: wrapper calls the function once, and the function
\* returns a JobSearchResult on every path (the except of line 233 returns),
\* so that wrapper returns it from attempt 0
scrape_jobs(url, use_cache) ==
    LET domain == DomainOf[url]
        blocked == ~Allowed(_get_state(domain))
        cached == ~blocked /\ use_cache /\ Truthy(CacheLookup(url))
    IN  /\ retry_pc = "idle"
        /\ trace' = <<CallOf(0, "ok")>>
        /\ IF blocked THEN Blocked(url, use_cache)
           ELSE IF cached THEN FromCache(url, use_cache)
           ELSE IF use_cache
           THEN Scrape(url, use_cache, CacheAfterGet(url), RecencyAfterGet(url))
           ELSE Scrape(url, use_cache, _cache, recency)
        /\ _state' = StateAfter(url, blocked, cached)
        /\ admitted' = IF blocked \/ cached
                       THEN IF _get_state(domain) = "half-open"
                            THEN [admitted EXCEPT ![domain] = Min(@ + 1, MaxAdmitted)]
                            ELSE admitted
                       ELSE [admitted EXCEPT ![domain] = 0]
        /\ UNCHANGED <<failure_threshold, recovery_timeout, min_delay, limiter_max_delay,
                       _lock_times, lock_events, storageVars, max_retries, base_delay,
                       max_delay, exponential, exceptions, retry_pc, attempt,
                       last_exception, raceVars>>

(***************************************************************************)
(* Properties of scrape_jobs.                                              *)
(***************************************************************************)
\* C27: while the circuit of a domain is open and less than recovery_timeout
\* has passed since its last failure, a scrape_jobs call for a url of that
\* domain returns an error without running the work and without waiting, and
\* leaves the clock, the cache, the rate-limit state, the failure count and
\* the open state as they are.
C27_OpenCircuitSkips ==
    [][\A u \in CareerUrls :
        LET d == DomainOf[u]
        IN  (/\ ret'.op = "scrape_jobs"
             /\ ret'.url = u
             /\ St(d) = "open"
             /\ now - _last_failure[d] < recovery_timeout) =>
                /\ ret'.val = "error"
                /\ ~ret'.executed
                /\ ~ret'.waited
                /\ _state'[d] = "open"
                /\ UNCHANGED <<now, _cache, last_request_time, _lock_times, _failures,
                               _last_failure>>
      ]_vars

C27_Witness ==
    /\ ret.op = "scrape_jobs"
    /\ ret.outcome = "blocked"
    /\ ret.url = Url_xb
    /\ _cache # <<>>
    /\ now = _last_failure["x.com"] + 1
    /\ recovery_timeout = 2
    /\ "x.com" \in DOMAIN last_request_time

\* the unexpired value the cache holds for url, "None" without one
Held(url) ==
    IF \E i \in DOMAIN _cache :
          _cache[i].key = _make_key(url) /\ now - _cache[i].timestamp <= ttl_seconds
    THEN _cache[IndexOf(_cache, _make_key(url))].value
    ELSE "None"

\* C28: when the circuit lets the call through and the cache holds an
\* unexpired result for the url, scrape_jobs (asked to use the cache)
\* returns that result without waiting, without running the work and
\* without recording a success or a failure.
C28_CacheHitShortCircuits ==
    [][\A u \in CareerUrls :
        LET d == DomainOf[u]
        IN  (/\ ret'.op = "scrape_jobs"
             /\ ret'.url = u
             /\ ret'.use_cache
             /\ ~(St(d) = "open" /\ now - _last_failure[d] <= recovery_timeout)
             /\ Held(u) # "None") =>
                /\ ret'.val = Held(u)
                /\ ~ret'.executed
                /\ ~ret'.waited
                /\ _state' = _get_state_effect(d)
                /\ UNCHANGED <<now, last_request_time, _failures, _last_failure>>
      ]_vars

C28_Witness ==
    /\ ret.op = "scrape_jobs"
    /\ ret.outcome = "cached"
    /\ ret.val = FoundJobs
    /\ ret.url = Url_xa
    /\ ret.use_cache
    /\ now = last_request_time["x.com"] + 1
    /\ _cache[1].timestamp = last_request_time["x.com"]
    /\ _failures["x.com"] = 0

\* C29: after a scrape_jobs call in which the work succeeded, the cache
\* holds the result under the url.
C29_SuccessIsCached ==
    (ret.op = "scrape_jobs" /\ ret.work \in {"jobs", "empty"}) =>
        \E i \in DOMAIN _cache : _cache[i].key = _make_key(ret.url) /\ _cache[i].value = ret.val

\* C30: when the work of a scrape_jobs call has failed, the function was
\* called again by the retrier before the failure was returned.
C30_FailureIsRetried ==
    (ret.op = "scrape_jobs" /\ ret.work = "raises") => Cardinality(Calls) > 1

(***************************************************************************)
(* RateLimiter.wait called by several threads.  The method takes no lock:  *)
(* a thread can run between the read of last_request_time (line 131-134),  *)
(* the sleep (line 137) and the write of line 140.                         *)
(***************************************************************************)
\* lines 128-135: now, required_delay, elapsed and sleep_time are computed
WaitBegin(t, domain) ==
    \E required_delay \in RequiredDelays :
        /\ wait_pc[t] = "idle"
        /\ now + SleepTime(domain, required_delay) <= MaxWaitTime
        /\ wait_local' = [wait_local EXCEPT
                             ![t] = [at |-> "wait", domain |-> domain,
                                     until |-> now + SleepTime(domain, required_delay)]]
        /\ wait_pc' = [wait_pc EXCEPT
                          ![t] = IF MustSleep(domain, required_delay)
                                 THEN "sleeping" ELSE "store"]
        /\ ret' = [op |-> "wait_begin", thread |-> t, domain |-> domain]
        /\ UNCHANGED <<now, limiterVars, load_pc, docs, set_pc, set_local,
                       retryVars, breakerVars, cacheVars, storageVars>>

\* line 137: time.sleep(sleep_time) returns once the time has passed
WaitWake(t) ==
    /\ wait_pc[t] = "sleeping"
    /\ now >= wait_local[t].until
    /\ wait_pc' = [wait_pc EXCEPT ![t] = "store"]
    /\ ret' = [op |-> "wait_wake", thread |-> t, domain |-> wait_local[t].domain]
    /\ UNCHANGED <<now, limiterVars, wait_local, load_pc, docs, set_pc, set_local,
                   retryVars, breakerVars, cacheVars, storageVars>>

\* line 140-141: self.last_request_time[domain] = time.time(); return
WaitEnd(t) ==
    /\ wait_pc[t] = "store"
    /\ last_request_time' = Put(last_request_time, wait_local[t].domain, now)
    /\ wait_pc' = [wait_pc EXCEPT ![t] = "idle"]
    /\ wait_local' = [wait_local EXCEPT ![t] = NoLocals]
    /\ ret' = [op |-> "wait_end", thread |-> t, domain |-> wait_local[t].domain]
    /\ UNCHANGED <<now, min_delay, limiter_max_delay, _lock_times, lock_events,
                   load_pc, docs, set_pc, set_local,
                   retryVars, breakerVars, cacheVars, storageVars>>

\* C32: under every interleaving of concurrent wait(D) calls, a wait(D)
\* completes at least min_delay after the wait(D) that completed before it.
C32_ConcurrentWaitsSpaced ==
    [][\A d \in Domains :
        (ret'.op = "wait_end" /\ ret'.domain = d /\ d \in DOMAIN last_request_time) =>
            last_request_time'[d] - last_request_time[d] >= min_delay
      ]_vars

\* C40: over a store that starts empty, is_job_seen(url) returns True only
\* if a url with the same normalized form was recorded and not deleted
\* since: urls whose normalized forms differ do not share a key.
C40_SeenOnlyIfRecorded ==
    (ret.op = "is_job_seen" /\ ret.val = TRUE) =>
        \E r \in recorded : normalize_url(r) = normalize_url(ret.url)

(***************************************************************************)
(* The first is_job_seen of a process, with another thread calling the     *)
(* storage meanwhile.  _load_seen_cache takes no lock: other calls can run *)
(* between the scan of line 47 and the assignments of line 48-49.          *)
(***************************************************************************)
\* storage.py 58, 44-47 (and 52-54 when the scan raises)
LoadScan(job_url) ==
    \E ok \in BOOLEAN :
        /\ pc = "idle"
        /\ load_pc = "idle"
        /\ ~_cache_loaded
        /\ IF ok
           THEN /\ load_pc' = "scanned"
                /\ docs' = [at |-> "load", ids |-> db, url |-> job_url]
                /\ ret' = [op |-> "load_scan", url |-> job_url]
                /\ UNCHANGED <<_seen_cache, failed>>
           ELSE /\ _seen_cache' = {}
                /\ failed' = TRUE
                /\ ret' = [op |-> "is_job_seen", url |-> job_url, val |-> FALSE,
                           raised |-> "none", load |-> "failed"]
                /\ UNCHANGED <<load_pc, docs>>
        /\ UNCHANGED <<now, wait_pc, wait_local, set_pc, set_local, retryVars,
                       limiterVars, breakerVars, cacheVars, db, _cache_loaded, pc,
                       jobs, idx, saved_count, batch, commits, recorded>>

\* storage.py 48-49, 59-63: the scanned ids replace _seen_cache
LoadAssign ==
    /\ load_pc = "scanned"
    /\ _seen_cache' = docs.ids
    /\ _cache_loaded' = TRUE
    /\ load_pc' = "idle"
    /\ docs' = NoLocals
    /\ ret' = [op |-> "is_job_seen", url |-> docs.url,
               val |-> _get_url_hash(docs.url) \in docs.ids,
               raised |-> "none", load |-> "overlapped"]
    /\ UNCHANGED <<now, wait_pc, wait_local, set_pc, set_local, retryVars,
                   limiterVars, breakerVars, cacheVars, db, pc, jobs, idx,
                   saved_count, batch, commits, recorded, failed>>

\* C33: with the first load running beside other callers, an is_job_seen
\* that starts after the record of a url completed (and no storage call
\* failed, no delete forgot it) answers True for that url.
C33_RecordedSeenDuringLoad ==
    (/\ ret.op = "is_job_seen"
     /\ ret.load # "overlapped"
     /\ ret.url \in recorded
     /\ ~failed) => ret.val = TRUE

(***************************************************************************)
(* LRUCache.set called by several threads.  The class takes no lock: each  *)
(* test of the loop condition, each popitem and the final assignment are   *)
(* separate steps, and other threads run between them.                     *)
(***************************************************************************)
\* the recency history restricted to the urls whose keys cache holds
StillCached(cache) == SelectSeq(recency, LAMBDA u : _make_key(u) \in Keys(cache))

\* line 194: key = self._make_key(url)
SetBegin(t, url, value) ==
    /\ set_pc[t] = "idle"
    /\ set_pc' = [set_pc EXCEPT ![t] = "check"]
    /\ set_local' = [set_local EXCEPT
                        ![t] = [at |-> "set", url |-> url, value |-> value,
                                key |-> _make_key(url)]]
    /\ ret' = [op |-> "set_begin", thread |-> t, url |-> url]
    /\ UNCHANGED <<now, wait_pc, wait_local, load_pc, docs, retryVars, limiterVars,
                   breakerVars, cacheVars, storageVars>>

\* line 197: one test of len(self._cache) >= self.max_size
SetCheck(t) ==
    /\ set_pc[t] = "check"
    /\ set_pc' = [set_pc EXCEPT ![t] = IF AtCapacity(_cache) THEN "evict" ELSE "insert"]
    /\ ret' = [op |-> "set_check", thread |-> t, url |-> set_local[t].url]
    /\ UNCHANGED <<now, wait_pc, wait_local, load_pc, docs, set_local, retryVars,
                   limiterVars, breakerVars, cacheVars, storageVars>>

\* line 198: self._cache.popitem(last=False); KeyError on an empty dictionary
SetEvict(t) ==
    /\ set_pc[t] = "evict"
    /\ IF _cache = <<>>
       THEN /\ set_pc' = [set_pc EXCEPT ![t] = "idle"]
            /\ set_local' = [set_local EXCEPT ![t] = NoLocals]
            /\ ret' = [op |-> "set", thread |-> t, url |-> set_local[t].url,
                       value |-> set_local[t].value, raised |-> TRUE]
            /\ UNCHANGED <<_cache, recency>>
       ELSE /\ set_pc' = [set_pc EXCEPT ![t] = "check"]
            /\ _cache' = Tail(_cache)
            /\ recency' = StillCached(Tail(_cache))
            /\ ret' = [op |-> "set_evict", thread |-> t, url |-> set_local[t].url]
            /\ UNCHANGED set_local
    /\ UNCHANGED <<now, wait_pc, wait_local, load_pc, docs, retryVars, limiterVars,
                   breakerVars, max_size, ttl_seconds, storageVars>>

\* line 200: self._cache[key] = (value, time.time())
SetInsert(t) ==
    LET key == set_local[t].key
    IN  /\ set_pc[t] = "insert"
        /\ _cache' = Assign(_cache, key, [key |-> key, value |-> set_local[t].value,
                                          timestamp |-> now])
        /\ recency' = IF key \in Keys(_cache) THEN recency
                      ELSE Append(recency, set_local[t].url)
        /\ set_pc' = [set_pc EXCEPT ![t] = "idle"]
        /\ set_local' = [set_local EXCEPT ![t] = NoLocals]
        /\ ret' = [op |-> "set", thread |-> t, url |-> set_local[t].url,
                   value |-> set_local[t].value, raised |-> FALSE]
        /\ UNCHANGED <<now, wait_pc, wait_local, load_pc, docs, retryVars, limiterVars,
                       breakerVars, max_size, ttl_seconds, storageVars>>

\* C34: with get and set called concurrently and interleaved step by step,
\* the cache never holds more than max_size entries, and a set that has
\* just completed has its key in the cache.
C34_ConcurrentCacheBounded ==
    /\ Len(_cache) <= max_size
    /\ (ret.op = "set" /\ ~ret.raised) => _make_key(ret.url) \in Keys(_cache)

(***************************************************************************)
(* The rate limiter and the circuit breaker keyed by domain.               *)
(***************************************************************************)
\* the domain a call was made for
CalledFor(call) ==
    IF call.op \in {"wait", "is_locked", "lock", "unlock"} THEN call.domain
    ELSE IF call.op \in {"can_execute", "record_success", "record_failure", "get_status"}
    THEN call.key
    ELSE "none"

\* what a dictionary holds for key: nothing, or a value
EntryOf(dict, key) == IF key \in DOMAIN dict THEN <<dict[key]>> ELSE <<>>

\* C35: a call of wait, is_locked, lock, unlock, can_execute, record_success,
\* record_failure or get_status for domain A leaves the last-call time, lock
\* time, circuit state, failure count and last-failure time of every other
\* domain B as they were.
C35_DomainsPartitioned ==
    [][\A a \in Domains, b \in Domains :
        (a # b /\ CalledFor(ret') = a) =>
            /\ EntryOf(last_request_time', b) = EntryOf(last_request_time, b)
            /\ EntryOf(_lock_times', b) = EntryOf(_lock_times, b)
            /\ EntryOf(_state', b) = EntryOf(_state, b)
            /\ EntryOf(_failures', b) = EntryOf(_failures, b)
            /\ EntryOf(_last_failure', b) = EntryOf(_last_failure, b)
      ]_vars

\* a failure is recorded for x.com, opening its circuit, while the circuit
\* of y.com is half-open after an earlier failure
C35_Witness ==
    /\ ret.op = "record_failure"
    /\ ret.key = "x.com"
    /\ St("x.com") = "open"
    /\ St("y.com") = "half-open"
    /\ _failures["y.com"] = 1
    /\ _last_failure["y.com"] < _last_failure["x.com"]

(***************************************************************************)
(* check_jobs_endpoint (src/main.py): what its loop does with one job a    *)
(* scrape has returned.                                                    *)
(***************************************************************************)
\* lines 199-219: if not is_job_seen(job_url): save_job(job); new_jobs_found.append(job)
check_job(job_url) ==
    LET job_hash == _get_url_hash(job_url)
    IN  \E loads \in BOOLEAN, saves \in BOOLEAN :
        /\ pc = "idle"
        /\ _cache_loaded => loads
        /\ _cache_loaded' = LoadedFlag(loads)
        /\ IF job_hash \in LoadedSeen(loads)
           THEN \* already seen: the job is skipped
                /\ _seen_cache' = LoadedSeen(loads)
                /\ failed' = (failed \/ ~loads)
                /\ ret' = [op |-> "check_job", url |-> job_url, seen |-> TRUE,
                           saved |-> FALSE, new |-> FALSE, loaded |-> loads]
                /\ UNCHANGED <<db, recorded>>
           ELSE IF saves
           THEN /\ db' = db \cup {job_hash}
                /\ _seen_cache' = LoadedSeen(loads) \cup {job_hash}
                /\ recorded' = recorded \cup {job_url}
                /\ failed' = (failed \/ ~loads)
                /\ ret' = [op |-> "check_job", url |-> job_url, seen |-> FALSE,
                           saved |-> TRUE, new |-> TRUE, loaded |-> loads]
           ELSE \* save_job raises StorageError: the handler of line 221 logs it
                /\ _seen_cache' = LoadedSeen(loads)
                /\ failed' = TRUE
                /\ ret' = [op |-> "check_job", url |-> job_url, seen |-> FALSE,
                           saved |-> FALSE, new |-> FALSE, loaded |-> loads]
                /\ UNCHANGED <<db, recorded>>
        /\ UNCHANGED <<now, raceVars, retryVars, limiterVars, breakerVars, cacheVars, pc, jobs, idx,
                       saved_count, batch, commits>>

\* C31: a job whose dedup key the store already holds is neither saved again
\* nor reported as new by check_jobs_endpoint.
C31_ActedOnOnce ==
    [][\A url \in JobUrls :
        (ret'.op = "check_job" /\ ret'.url = url /\ _get_url_hash(url) \in db) =>
            (~ret'.saved /\ ~ret'.new)
      ]_vars

(***************************************************************************)
(* The clock.                                                              *)
(***************************************************************************)
Tick(limit) ==
    /\ now < limit
    /\ now' = now + 1
    /\ ret' = NoCall
    /\ UNCHANGED <<raceVars, retryVars, limiterVars, breakerVars, cacheVars, storageVars>>

(***************************************************************************)
(* The circuit breaker on its own: CircuitBreaker(failure_threshold,       *)
(* recovery_timeout) with every threshold >= 1 and timeout of the bounds.  *)
(***************************************************************************)
BreakerFresh ==
    /\ _failures = EmptyDict
    /\ _last_failure = EmptyDict
    /\ _state = EmptyDict
    /\ admitted = [d \in Domains |-> 0]
    /\ streak = [d \in Domains |-> 0]

CacheFresh == _cache = <<>> /\ recency = <<>>

\* JobStorage.__init__, and no call of save_jobs_batch under way
StorageFresh ==
    /\ _seen_cache = {}
    /\ _cache_loaded = FALSE
    /\ pc = "idle"
    /\ jobs = NoJobs
    /\ idx = 0
    /\ saved_count = 0
    /\ batch = EmptyBatch
    /\ commits = <<>>
    /\ recorded = {}
    /\ failed = FALSE

StorageIdle == db = {} /\ StorageFresh

LimiterFresh ==
    /\ last_request_time = EmptyDict
    /\ _lock_times = EmptyDict
    /\ lock_events = [d \in Domains |-> [kind |-> "never"]]

LimiterIdle ==
    /\ min_delay = 1
    /\ limiter_max_delay = 1
    /\ LimiterFresh

\* no call of wait, _load_seen_cache or set is under way
RaceIdle ==
    /\ wait_pc = [t \in Threads |-> "idle"]
    /\ wait_local = [t \in Threads |-> NoLocals]
    /\ load_pc = "idle"
    /\ docs = NoLocals
    /\ set_pc = [t \in Threads |-> "idle"]
    /\ set_local = [t \in Threads |-> NoLocals]

RetryFresh ==
    /\ retry_pc = "idle"
    /\ attempt = 0
    /\ last_exception = NoException
    /\ trace = <<>>

RetryIdle ==
    /\ max_retries = 0
    /\ base_delay = Tenths(1)
    /\ max_delay = DefaultMaxDelay
    /\ exponential = TRUE
    /\ exceptions = Raised
    /\ RetryFresh

BreakerInit ==
    /\ now = 0
    /\ ret = NoCall
    /\ failure_threshold \in 1..MaxThreshold
    /\ recovery_timeout \in 1..MaxTimeout
    /\ BreakerFresh
    /\ max_size = 1
    /\ ttl_seconds = 1
    /\ CacheFresh
    /\ StorageIdle
    /\ RetryIdle
    /\ LimiterIdle
    /\ RaceIdle

BreakerNext ==
    \/ Tick(MaxTime)
    \/ \E key \in Domains : can_execute(key)
    \/ \E key \in Domains : record_success(key)
    \/ \E key \in Domains : record_failure(key)
    \/ \E key \in Domains : get_status(key)

BreakerSpec == BreakerInit /\ [][BreakerNext]_vars

(***************************************************************************)
(* The cache on its own: LRUCache(max_size, ttl_seconds).                  *)
(***************************************************************************)
CacheInit ==
    /\ now = 0
    /\ ret = NoCall
    /\ failure_threshold = 1
    /\ recovery_timeout = 1
    /\ BreakerFresh
    /\ max_size \in 0..MaxSize
    /\ ttl_seconds \in 1..MaxTtl
    /\ CacheFresh
    /\ StorageIdle
    /\ RetryIdle
    /\ LimiterIdle
    /\ RaceIdle

CacheNext ==
    \/ Tick(MaxCacheTime)
    \/ \E url \in Urls : get(url)
    \/ \E url \in Urls, value \in Values : set(url, value)
    \/ clear
    \/ stats

CacheSpec == CacheInit /\ [][CacheNext]_vars

(***************************************************************************)
(* The dedup store on its own: a JobStorage created over a collection that *)
(* may already hold documents, and short job lists.                        *)
(***************************************************************************)
BreakerIdle ==
    /\ failure_threshold = 1
    /\ recovery_timeout = 1
    /\ BreakerFresh

CacheIdle ==
    /\ max_size = 1
    /\ ttl_seconds = 1
    /\ CacheFresh

StorageInit ==
    /\ now = 0
    /\ ret = NoCall
    /\ BreakerIdle
    /\ CacheIdle
    /\ db \in SUBSET Hashes
    /\ StorageFresh
    /\ RetryIdle
    /\ LimiterIdle
    /\ RaceIdle

StorageNext ==
    \/ \E url \in JobUrls : is_job_seen(url)
    \/ \E job \in Jobs : save_job(job)
    \/ \E id \in Hashes : delete_job(id)
    \/ BatchStart(0..MaxJobs, {0, 2}, {0})
    \/ BatchStep
    \/ BatchFinish

StorageSpec == StorageInit /\ [][StorageNext]_vars

(***************************************************************************)
(* save_jobs_batch on lists around one and two full batches.               *)
(***************************************************************************)
LongLists == {BatchLimit - 1, BatchLimit, BatchLimit + 1, 2 * BatchLimit, 2 * BatchLimit + 1}

BatchInit ==
    /\ now = 0
    /\ ret = NoCall
    /\ BreakerIdle
    /\ CacheIdle
    /\ StorageIdle
    /\ RetryIdle
    /\ LimiterIdle
    /\ RaceIdle

BatchNext ==
    \/ BatchStart({0, 1} \cup LongLists, {0, 1, 2, BatchLimit}, {0})
    \/ BatchStep
    \/ BatchFinish

BatchSpec == BatchInit /\ [][BatchNext]_vars

(***************************************************************************)
(* One call of a function decorated with retry_with_backoff, for every     *)
(* setting of its parameters.                                              *)
(***************************************************************************)
RetryInit ==
    /\ now = 0
    /\ ret = NoCall
    /\ BreakerIdle
    /\ CacheIdle
    /\ StorageIdle
    /\ max_retries \in 0..MaxRetries
    /\ base_delay \in BaseDelays
    /\ max_delay \in MaxDelays
    /\ exponential \in BOOLEAN
    /\ exceptions \in ExceptionTuples
    /\ RetryFresh
    /\ LimiterIdle
    /\ RaceIdle

RetryNext ==
    \/ wrapper
    \/ Attempt

RetrySpec == RetryInit /\ [][RetryNext]_vars

(***************************************************************************)
(* The rate limiter on its own, with a single caller.                      *)
(***************************************************************************)
LimiterInit ==
    /\ now = 0
    /\ ret = NoCall
    /\ BreakerIdle
    /\ CacheIdle
    /\ StorageIdle
    /\ RetryIdle
    /\ min_delay \in 0..MaxRateDelay
    /\ limiter_max_delay \in min_delay..MaxRateDelay
    /\ LimiterFresh
    /\ RaceIdle

LimiterNext ==
    \/ \E d \in Domains : wait(d)
    \/ \E d \in Domains : is_locked(d)
    \/ \E d \in Domains, duration \in LockDurations : lock(d, duration)
    \/ \E d \in Domains : unlock(d)
    \/ Tick(MaxWaitTime)

LimiterSpec == LimiterInit /\ [][LimiterNext]_vars

(***************************************************************************)
(* The agent over the module's limiter, cache and breaker, with their      *)
(* settings scaled down to the clock of the model.                         *)
(***************************************************************************)
AgentInit ==
    /\ now = 0
    /\ ret = NoCall
    /\ failure_threshold = 2
    /\ recovery_timeout = 2
    /\ BreakerFresh
    /\ max_size = 1
    /\ ttl_seconds = 1
    /\ CacheFresh
    /\ StorageIdle
    /\ max_retries = 2
    /\ base_delay = Tenths(3)
    /\ max_delay = DefaultMaxDelay
    /\ exponential = TRUE
    /\ exceptions = Raised
    /\ RetryFresh
    /\ min_delay = 0
    /\ limiter_max_delay = 1
    /\ LimiterFresh
    /\ RaceIdle

AgentNext ==
    \/ \E url \in CareerUrls, use_cache \in BOOLEAN : scrape_jobs(url, use_cache)
    \/ Tick(MaxAgentTime)

AgentSpec == AgentInit /\ [][AgentNext]_vars

(***************************************************************************)
(* The job loop of check-jobs over the dedup store, with manual deletions. *)
(***************************************************************************)
CheckNext ==
    \/ \E url \in JobUrls : check_job(url)
    \/ \E id \in Hashes : delete_job(id)

CheckSpec == StorageInit /\ [][CheckNext]_vars

(***************************************************************************)
(* Two threads calling rate_limiter.wait.                                  *)
(***************************************************************************)
WaitRaceNext ==
    \/ \E t \in Threads, d \in Domains : WaitBegin(t, d)
    \/ \E t \in Threads : WaitWake(t)
    \/ \E t \in Threads : WaitEnd(t)
    \/ Tick(MaxWaitTime)

WaitRaceSpec == LimiterInit /\ [][WaitRaceNext]_vars

(***************************************************************************)
(* The dedup store used by two threads during its first load.              *)
(***************************************************************************)
FirstLoadNext ==
    \/ \E url \in JobUrls : LoadScan(url)
    \/ LoadAssign
    \/ \E url \in JobUrls : is_job_seen(url)
    \/ \E job \in Jobs : save_job(job)
    \/ \E id \in Hashes : delete_job(id)

FirstLoadSpec == StorageInit /\ [][FirstLoadNext]_vars

(***************************************************************************)
(* The cache used by two threads: LRUCache(max_size >= 1, ttl_seconds=1).  *)
(***************************************************************************)
\* the urls the two threads cache
RaceUrls == {"u1", "u2"}

CacheRaceInit ==
    /\ now = 0
    /\ ret = NoCall
    /\ BreakerIdle
    /\ max_size \in 1..2
    /\ ttl_seconds = 1
    /\ CacheFresh
    /\ StorageIdle
    /\ RetryIdle
    /\ LimiterIdle
    /\ RaceIdle

CacheRaceNext ==
    \/ \E t \in Threads, url \in RaceUrls : SetBegin(t, url, FoundJobs)
    \/ \E t \in Threads : SetCheck(t)
    \/ \E t \in Threads : SetEvict(t)
    \/ \E t \in Threads : SetInsert(t)
    \/ \E url \in RaceUrls : get(url)
    \/ Tick(1)

CacheRaceSpec == CacheRaceInit /\ [][CacheRaceNext]_vars

(***************************************************************************)
(* A rate limiter and a circuit breaker, each used for two domains:        *)
(* RateLimiter(0, 0), which never sleeps, and CircuitBreaker(1, 1).  The   *)
(* two objects share no field, so a run calls one of them and the other    *)
(* stays as constructed.                                                   *)
(***************************************************************************)
DomainInit ==
    /\ now = 0
    /\ ret = NoCall
    /\ failure_threshold = 1
    /\ recovery_timeout = 1
    /\ BreakerFresh
    /\ CacheIdle
    /\ StorageIdle
    /\ RetryIdle
    /\ min_delay = 0
    /\ limiter_max_delay = 0
    /\ LimiterFresh
    /\ RaceIdle

LimiterCall ==
    \/ \E d \in Domains : wait(d)
    \/ \E d \in Domains : is_locked(d)
    \/ \E d \in Domains, duration \in LockDurations : lock(d, duration)
    \/ \E d \in Domains : unlock(d)

BreakerCall ==
    \/ \E d \in Domains : can_execute(d)
    \/ \E d \in Domains : record_success(d)
    \/ \E d \in Domains : Get(_failures, d, 0) <= failure_threshold /\ record_failure(d)
    \/ \E d \in Domains : get_status(d)

DomainNext ==
    \/ Tick(MaxDomainTime)
    \/ BreakerFresh /\ LimiterCall
    \/ LimiterFresh /\ BreakerCall

DomainSpec == DomainInit /\ [][DomainNext]_vars

(***************************************************************************)
(* The circuit breaker whose failures stop: record_failure is called up to *)
(* time MaxFailTime only, time goes on past every recovery timeout, and    *)
(* callers keep calling can_execute.                                       *)
(***************************************************************************)
RecoveryInit ==
    /\ now = 0
    /\ ret = NoCall
    /\ failure_threshold \in 1..2
    /\ recovery_timeout \in 1..MaxTimeout
    /\ BreakerFresh
    /\ CacheIdle
    /\ StorageIdle
    /\ RetryIdle
    /\ LimiterIdle
    /\ RaceIdle

RecoveryNext ==
    \/ Tick(MaxFailTime + MaxTimeout + 1)
    \/ \E key \in Domains : can_execute(key)
    \/ \E key \in Domains : record_success(key)
    \/ \E key \in Domains :
          /\ now <= MaxFailTime
          /\ Get(_failures, key, 0) <= failure_threshold
          /\ record_failure(key)

RecoverySpec ==
    /\ RecoveryInit
    /\ [][RecoveryNext]_vars
    /\ WF_vars(Tick(MaxFailTime + MaxTimeout + 1))
    /\ \A key \in Domains : WF_vars(can_execute(key))

(***************************************************************************)
(* The dedup store over a collection that starts empty, with single saves, *)
(* lookups and deletions.                                                  *)
(***************************************************************************)
DedupInit ==
    /\ now = 0
    /\ ret = NoCall
    /\ BreakerIdle
    /\ CacheIdle
    /\ StorageIdle
    /\ RetryIdle
    /\ LimiterIdle
    /\ RaceIdle

DedupNext ==
    \/ \E url \in JobUrls : is_job_seen(url)
    \/ \E job \in Jobs : save_job(job)
    \/ \E id \in Hashes : delete_job(id)

DedupSpec == DedupInit /\ [][DedupNext]_vars

=============================================================================
